---- MODULE Spec2Model ----
(***************************************************************************)
(* State-machine model of the lms2012 compatibility platform driver        *)
(* (src/lms2012/lms2012_compat.c): lms2012_compat_probe,                   *)
(* lms2012_compat_remove, lms2012_compat_get, the two devres release       *)
(* callbacks, and the driver core's managed-resource release that follows  *)
(* a failed probe or a remove.                                             *)
(***************************************************************************)
EXTENDS Integers, Sequences, FiniteSets, TLC

(* ------------------------------------------------------------------ *)
(* Bounds of the model                                                 *)
(* ------------------------------------------------------------------ *)

\* number of platform devices that match "ev3dev,lms2012-compat"
NumDevs == 2
\* number of external callers of lms2012_compat_get
NumReaders == 1
\* total number of probe invocations explored
MaxProbes == 2
\* number of input ports and of output ports.  INPUTS and OUTPUTS are
\* compile-time constants of lms2012.h; probe and remove use them only as
\* loop bounds, array lengths and expected counts, so the model keeps them
\* as bounds
INPUTS == 2
OUTPUTS == 2

(* ------------------------------------------------------------------ *)
(* Program constants                                                   *)
(* ------------------------------------------------------------------ *)

\* lms2012.h: the arities of the GPIO groups and of the ADC channel map
\* (probe only compares with them)
ADC_SPI_PINS == 3
INPUT_PORT_PINS == 5
OUTPUT_PORT_PINS == 4
INPUTADC == 4

\* errno values returned (negated) by probe
EBUSY == 16
ENOMEM == 12
EINVAL == 22
ENODEV == 19
EOVERFLOW == 75
EEXIST == 17
ENOENT == 2
EPROBE_DEFER == 517

NULL == 0

Devs == 1..NumDevs
Readers == 1..NumReaders

\* the four sub-devices, in registration order (lines 315-318)
SubDevNames == <<"d_analog", "d_iic", "d_uart", "d_pwm">>
NumSubDevs == Len(SubDevNames)

(* ------------------------------------------------------------------ *)
(* State                                                               *)
(* ------------------------------------------------------------------ *)

VARIABLES
  global_dev,   \* static struct device *global_dev: a device or NULL
  pc,           \* pc[d]: position of the control path that probes/removes d
  idx,          \* idx[d]: the loop counter i of probe (and of remove's steps)
  ret,          \* ret[d]: value returned by the current/last probe of d
  lms,          \* lms[d]: the devm_kzalloc'ed struct lms2012_compat of d
  drvdata,      \* drvdata[d]: platform_get_drvdata(pdev) is set
  devres,       \* devres[d]: managed resources of pdev->dev, oldest first
  portres,      \* portres[d][i]: pinctrl handles managed by in_port i's device
  log,          \* log[d]: calls of this attempt with the value each returned
  rel,          \* rel[d]: provider release calls made for this attempt
  relseq,       \* relseq[d]: the resources released for this attempt, in order
  subdev,       \* subdev[n]: owner of the registered platform device n, or NULL
  attempts,     \* number of probe invocations so far
  rpc,          \* rpc[r]: position of reader r inside lms2012_compat_get
  rptr,         \* rptr[r]: the pointer reader r loaded / holds
  devref,       \* devref[d]: references taken on d by get_device
  removes,      \* number of completed lms2012_compat_remove calls so far
  serial        \* TRUE: the entry points are invoked one at a time

vars == <<global_dev, pc, idx, ret, lms, drvdata, devres, portres, log, rel, relseq,
          subdev, attempts, removes, rpc, rptr, devref, serial>>

\* the part of the state only readers change
rvars == <<rpc, rptr, devref>>

(* ------------------------------------------------------------------ *)
(* The bundle: struct lms2012_compat (lms2012.h), slots filled by probe *)
(* ------------------------------------------------------------------ *)

\* slot arrays are filled in index order, so each is modelled by the number of
\* filled elements; sub[n] is the token stored for sub-device n
\*   "none" (zeroed), "dev" (a registered platform device), "err" (ERR_PTR)
EmptyLms ==
  [alloc |-> FALSE, pinctrl |-> 0, adc_map |-> FALSE, spi_pins |-> FALSE,
   in_pins |-> 0, i2c_adapter |-> 0, uart |-> 0, out_pins |-> 0, out_pwms |-> 0,
   sub |-> [n \in 1..NumSubDevs |-> "none"]]

\* every slot that acquisition steps 1-8 fill is filled
LmsComplete(l) ==
  /\ l.alloc
  /\ l.pinctrl = INPUTS
  /\ l.adc_map
  /\ l.spi_pins
  /\ l.in_pins = INPUTS
  /\ l.i2c_adapter = INPUTS
  /\ l.uart = INPUTS
  /\ l.out_pins = OUTPUTS
  /\ l.out_pwms = OUTPUTS

(* ------------------------------------------------------------------ *)
(* Call log                                                            *)
(* ------------------------------------------------------------------ *)

\* one call made by probe: which call, for which port, and what it returned
Call(c, i, v) == [call |-> c, i |-> i, val |-> v]

\* the acquire calls to the resource providers
AcquireCalls ==
  {"pinctrl.get", "spi.get", "pin2.get", "in.get", "i2c.get", "uart.ioremap",
   "clk.get", "clk.enable", "out.get", "pwm.get"}

\* did the acquire call e hand out a resource?
\* (pointer-returning calls: val > 0 is a handle or a line count, 0 is NULL,
\*  val < 0 is ERR_PTR; clk_prepare_enable returns 0 on success)
Claimed(e) ==
  /\ e.call \in AcquireCalls
  /\ IF e.call = "clk.enable" THEN e.val = 0 ELSE e.val > 0

\* the provider-side resource kind of an acquire call
KindOf(c) ==
  CASE c = "pinctrl.get" -> "pinctrl"
    [] c \in {"spi.get", "pin2.get", "in.get", "out.get"} -> "gpio"
    [] c = "i2c.get" -> "i2c"
    [] c = "uart.ioremap" -> "uartmem"
    [] c = "clk.get" -> "clk"
    [] c = "clk.enable" -> "clk_en"
    [] c = "pwm.get" -> "pwm"
    [] OTHER -> "none"

Kinds == {"pinctrl", "gpio", "i2c", "uartmem", "clk", "clk_en", "pwm"}

\* number of resources of kind k claimed in the attempt logged in lg
ClaimCount(lg, k) ==
  LET T(e) == Claimed(e) /\ KindOf(e.call) = k IN Len(SelectSeq(lg, T))

\* number of acquire calls (successful or not) in the attempt logged in lg
AcquireCallCount(lg) ==
  LET T(e) == e.call \in AcquireCalls IN Len(SelectSeq(lg, T))

\* what rel counts: provider releases, and of_node_put of description nodes
RelKinds == Kinds \cup {"node"}

NoRel == [k \in RelKinds |-> 0]

(* ------------------------------------------------------------------ *)
(* Initial state: no device probed, global_dev = NULL (line 27)        *)
(* ------------------------------------------------------------------ *)

Init ==
  /\ serial = TRUE
  /\ global_dev = NULL
  /\ pc = [d \in Devs |-> "unbound"]
  /\ idx = [d \in Devs |-> 0]
  /\ ret = [d \in Devs |-> 0]
  /\ lms = [d \in Devs |-> EmptyLms]
  /\ drvdata = [d \in Devs |-> FALSE]
  /\ devres = [d \in Devs |-> <<>>]
  /\ portres = [d \in Devs |-> [i \in 0..(INPUTS - 1) |-> 0]]
  /\ log = [d \in Devs |-> <<>>]
  /\ rel = [d \in Devs |-> NoRel]
  /\ relseq = [d \in Devs |-> <<>>]
  /\ subdev = [n \in 1..NumSubDevs |-> NULL]
  /\ attempts = 0
  /\ removes = 0
  /\ rpc = [r \in Readers |-> "idle"]
  /\ rptr = [r \in Readers |-> NULL]
  /\ devref = [d \in Devs |-> 0]

\* the same, with the entry points free to run concurrently
InitConc ==
  /\ serial = FALSE
  /\ global_dev = NULL
  /\ pc = [d \in Devs |-> "unbound"]
  /\ idx = [d \in Devs |-> 0]
  /\ ret = [d \in Devs |-> 0]
  /\ lms = [d \in Devs |-> EmptyLms]
  /\ drvdata = [d \in Devs |-> FALSE]
  /\ devres = [d \in Devs |-> <<>>]
  /\ portres = [d \in Devs |-> [i \in 0..(INPUTS - 1) |-> 0]]
  /\ log = [d \in Devs |-> <<>>]
  /\ rel = [d \in Devs |-> NoRel]
  /\ relseq = [d \in Devs |-> <<>>]
  /\ subdev = [n \in 1..NumSubDevs |-> NULL]
  /\ attempts = 0
  /\ removes = 0
  /\ rpc = [r \in Readers |-> "idle"]
  /\ rptr = [r \in Readers |-> NULL]
  /\ devref = [d \in Devs |-> 0]

(* ------------------------------------------------------------------ *)
(* Scheduling                                                          *)
(* ------------------------------------------------------------------ *)

\* no probe, remove or unwind of d is in progress
Quiet(d) == pc[d] \in {"unbound", "bound"}

\* a probe has written through a NULL pointer in kernel context: the probing
\* task has died holding the device lock, and what the kernel does from
\* there on is not modelled
Oopsed == \E d \in Devs: pc[d] = "oops"

\* reader r is neither inside lms2012_compat_get nor using its result
RQuiet(r) == rpc[r] = "idle"

\* the next step of d's control path reads and writes only state that no
\* other control path reads or writes: d's own bundle, managed resources and
\* attempt record (every step between the singleton check and the
\* publication, and the driver core's release after a return)
Local(d) ==
  pc[d] \in {"alloc", "count_in", "in_port", "adc", "spi", "in_pins",
             "count_i2c", "i2c", "count_uart", "uart", "out_pins", "out_pwm",
             "failed", "removed", "released"}

\* the devices whose next step is local
LocalDevs == {e \in Devs: Local(e)}

\* the control path of device d may take a step.  Serial: no other entry
\* point is in progress and no caller of lms2012_compat_get is between its
\* get and its put_device.  Concurrent: control paths interleave at their
\* accesses to shared state (global_dev, the platform bus, the use counts);
\* local steps commute with every step of another path, so they are taken
\* first, lowest device first, instead of in every order.
DevTurn(d) ==
  /\ ~Oopsed
  /\ IF serial
       THEN /\ \A e \in Devs \ {d}: Quiet(e)
            /\ \A r \in Readers: RQuiet(r)
       ELSE LocalDevs # {} => (d \in LocalDevs /\ \A e \in LocalDevs: d <= e)

\* reader r may take a step
ReaderTurn(r) ==
  /\ ~Oopsed
  /\ IF serial
       THEN /\ \A e \in Devs: Quiet(e)
            /\ \A q \in Readers \ {r}: RQuiet(q)
       ELSE LocalDevs = {}

(* ------------------------------------------------------------------ *)
(* Values the environment can answer with                              *)
(* ------------------------------------------------------------------ *)

\* error pointers/codes a resource provider can answer with
ProvErrs == {-ENODEV}

\* the same for the PWM provider, which may also not be ready yet
PwmErrs == ProvErrs \cup {-EPROBE_DEFER}

\* error codes a query of the hardware description can answer with
DescErrs == {-ENOENT}

\* results of counting a phandle list or an array property
CountVals == DescErrs \cup {INPUTS - 1, INPUTS, INPUTS + 1}

\* a valid handle
HANDLE == 1

\* the answers drawn for a call: those in S if the call is made, and one
\* placeholder (never looked at) if an earlier call of the step already failed
Drawn(made, S) == IF made THEN S ELSE {HANDLE}

\* the value logged for call c of port i in the attempt lg
LogVal(lg, c, i) ==
  LET T(e) == e.call = c /\ e.i = i IN Head(SelectSeq(lg, T)).val

\* The descriptions explored differ from the plain valid one (no optional
\* pin 2 lines, "i2c" pin states declared, INPUTADC ADC channels) in at most
\* one way that probe tolerates, and the allocator fails a registration only
\* under the plain one.  Plain(lg): the attempt lg has met no such difference.
Plain(lg) ==
  \A p \in DOMAIN lg:
    /\ lg[p].call = "pinctrl.lookup_i2c" => lg[p].val >= 0
    /\ lg[p].call = "adc-channels.read" => lg[p].i <= INPUTADC
    /\ lg[p].call = "pin2.get" => lg[p].val <= 0

\* the declared lengths of "adc-channels" (or the error of its lookup)
AdcLens(lg) ==
  DescErrs \cup {INPUTADC - 1, INPUTADC}
    \cup (IF Plain(lg) THEN {INPUTADC + 1} ELSE {})

\* the "inN-pin2" line of input port i: absent (NULL) or present; one
\* description declares the optional line for every port or for none
Pin2Lines(lg, i) ==
  IF i = 0 THEN (IF Plain(lg) THEN {NULL, HANDLE} ELSE {NULL})
  ELSE {LogVal(lg, "pin2.get", 0)}

\* pinctrl_lookup_state(p, "i2c") for input port i: the state handle, or an
\* error when the port's pin controller node declares no "i2c" state; the
\* input ports of one description are declared alike
I2cStates(lg, i) ==
  IF i = 0 THEN ProvErrs \cup {HANDLE}
  ELSE {LogVal(lg, "pinctrl.lookup_i2c", 0)}

\* most registrations of a sub-device that fail for want of memory in one
\* probe
MaxRegFail == 1

(* ------------------------------------------------------------------ *)
(* lms2012_compat_probe, one action per step                           *)
(* ------------------------------------------------------------------ *)

\* the effect of one step of probe on the state of the probing control path
Upd(d, p, i, r, calls, l, dr) ==
  /\ pc' = [pc EXCEPT ![d] = p]
  /\ idx' = [idx EXCEPT ![d] = i]
  /\ ret' = [ret EXCEPT ![d] = r]
  /\ log' = [log EXCEPT ![d] = @ \o calls]
  /\ lms' = [lms EXCEPT ![d] = l]
  /\ devres' = [devres EXCEPT ![d] = @ \o dr]

\* probe returns the error r
Fail(d, r, calls, l, dr) == Upd(d, "failed", idx[d], r, calls, l, dr)

\* a managed resource of pdev->dev: its kind and the pointer its record holds
\* and the acquire call (of port i) that handed out what it holds
Res(k, a, c, i) == [kind |-> k, arg |-> a, call |-> c, i |-> i]

\* the resource handed out by the acquire call c of port i
Rsrc(c, i) == [call |-> c, i |-> i]

\* faulty variant of BusyCheck: the singleton check never fires
BusyCheck_Never(g) == FALSE

\* line 74: if (global_dev)
BusyCheck(g) == g # NULL

\* the matching platform devices are interchangeable, so they are numbered
\* in the order in which the driver core probes them for the first time: the
\* d-th device is not probed before d - 1 probes have been made
ProbedInOrder(d) == d <= attempts + 1

\* lines 74-75: the singleton check
ProbeCheck(d) ==
  /\ DevTurn(d)
  /\ pc[d] = "unbound"
  /\ attempts < MaxProbes
  /\ ProbedInOrder(d)
  /\ attempts' = attempts + 1
  /\ IF BusyCheck(global_dev)
       THEN Fail(d, -EBUSY, <<>>, lms[d], <<>>)
       ELSE Upd(d, "alloc", 0, ret[d], <<>>, lms[d], <<>>)
  /\ UNCHANGED <<global_dev, drvdata, portres, rel, relseq, subdev, removes, rvars,
                 serial>>

\* lines 77-79: lms = devm_kzalloc(...)
ProbeAllocLms(d) ==
  /\ DevTurn(d)
  /\ pc[d] = "alloc"
  /\ \E v \in {NULL, HANDLE}:
       IF v = NULL
         THEN Fail(d, -ENOMEM, <<Call("lms.alloc", 0, v)>>, lms[d], <<>>)
         ELSE Upd(d, "count_in", 0, ret[d], <<Call("lms.alloc", 0, v)>>,
                  [lms[d] EXCEPT !.alloc = TRUE], <<Res("lms", NULL, "lms.alloc", 0)>>)
  /\ UNCHANGED <<global_dev, drvdata, portres, rel, relseq, subdev, attempts, removes, rvars,
                 serial>>

\* line 86: ret != INPUTS
InPortsCountOk(n) == n = INPUTS

\* lines 81-90: of_count_phandle_with_args(..., "in-in-ports", ...)
ProbeCountInPorts(d) ==
  /\ DevTurn(d)
  /\ pc[d] = "count_in"
  /\ \E n \in CountVals:
       LET c == <<Call("in-in-ports.count", 0, n)>> IN
       IF n < 0 THEN Fail(d, n, c, lms[d], <<>>)
       ELSE IF ~InPortsCountOk(n) THEN Fail(d, -EINVAL, c, lms[d], <<>>)
       ELSE Upd(d, "in_port", 0, ret[d], c, lms[d], <<>>)
  /\ UNCHANGED <<global_dev, drvdata, portres, rel, relseq, subdev, attempts, removes, rvars,
                 serial>>

\* faulty variant of InputsDone: the input loops stop one port early
InputsDone_Early(i) == i + 2 >= INPUTS

\* line 92 (also 140, 179, 205): the loop condition i < INPUTS, for i + 1
InputsDone(i) == i + 1 >= INPUTS

\* lines 92-121: one iteration of the loop that gets the input ports' pinmux
ProbeInPort(d) ==
  /\ DevTurn(d)
  /\ pc[d] = "in_port"
  /\ LET i == idx[d] IN
     \E ph \in DescErrs \cup {0}:
     \E dev \in Drawn(ph >= 0, {NULL, HANDLE}):
     \E pin \in Drawn(ph >= 0 /\ dev # NULL, ProvErrs \cup {HANDLE}):
     \E st \in Drawn(ph >= 0 /\ dev # NULL /\ pin >= 0, I2cStates(log[d], i)):
       LET c1 == <<Call("in-in-ports.phandle", i, ph)>>
           c2 == c1 \o <<Call("in_port.find", i, dev)>>
           c3 == c2 \o <<Call("pinctrl.get", i, pin)>>
           \* lines 117-120: the "default" state was found and selected by
           \* devm_pinctrl_get_select_default, so its lookup succeeds; neither
           \* result is tested
           c4 == c3 \o <<Call("pinctrl.lookup_default", i, HANDLE),
                         Call("pinctrl.lookup_i2c", i, st)>>
       IN
       IF ph < 0 THEN
         Fail(d, ph, c1, lms[d], <<>>) /\ UNCHANGED portres
       ELSE IF dev = NULL THEN
         Fail(d, -ENODEV, c2, lms[d], <<>>) /\ UNCHANGED portres
       ELSE IF pin < 0 THEN
         Fail(d, pin, c3, lms[d], <<>>) /\ UNCHANGED portres
       ELSE
         \* devm_pinctrl_get_select_default(&in_port->dev): the handle is a
         \* managed resource of the input port's device, not of pdev->dev
         /\ portres' = [portres EXCEPT ![d][i] = @ + 1]
         /\ LET l == [lms[d] EXCEPT !.pinctrl = @ + 1] IN
            IF InputsDone(i) THEN Upd(d, "adc", 0, ret[d], c4, l, <<>>)
            ELSE Upd(d, "in_port", i + 1, ret[d], c4, l, <<>>)
  /\ UNCHANGED <<global_dev, drvdata, rel, relseq, subdev, attempts, removes, rvars, serial>>

\* of_property_read_u32_array(np, name, out, sz) on a property that declares
\* len elements (len < 0: the property lookup itself failed with that error)
OfPropertyReadU32Array(len, sz) ==
  IF len < 0 THEN len ELSE IF len < sz THEN -EOVERFLOW ELSE 0

\* lines 123-128: read "adc-channels" into lms->adc_map
ProbeAdcMap(d) ==
  /\ DevTurn(d)
  /\ pc[d] = "adc"
  /\ \E len \in AdcLens(log[d]):
       LET r == OfPropertyReadU32Array(len, INPUTADC)
           c == <<Call("adc-channels.read", len, r)>>
       IN
       IF r < 0 THEN Fail(d, r, c, lms[d], <<>>)
       ELSE Upd(d, "spi", 0, ret[d], c, [lms[d] EXCEPT !.adc_map = TRUE], <<>>)
  /\ UNCHANGED <<global_dev, drvdata, portres, rel, relseq, subdev, attempts, removes, rvars,
                 serial>>

\* lines 130-138: the SPI pin group and its arity check
ProbeSpiPins(d) ==
  /\ DevTurn(d)
  /\ pc[d] = "spi"
  /\ \E v \in ProvErrs \cup {ADC_SPI_PINS, ADC_SPI_PINS + 2}:
       LET c == <<Call("spi.get", 0, v)>>
           l == [lms[d] EXCEPT !.spi_pins = TRUE]
           dr == <<Res("gpio", NULL, "spi.get", 0)>>
       IN
       IF v < 0 THEN Fail(d, v, c, lms[d], <<>>)
       ELSE IF v # ADC_SPI_PINS THEN Fail(d, -EINVAL, c, l, dr)
       ELSE Upd(d, "in_pins", 0, ret[d], c, l, dr)
  /\ UNCHANGED <<global_dev, drvdata, portres, rel, relseq, subdev, attempts, removes, rvars,
                 serial>>

\* lines 140-161: the optional pin 2 line, then the port's GPIO group
ProbeInPins(d) ==
  /\ DevTurn(d)
  /\ pc[d] = "in_pins"
  /\ LET i == idx[d] IN
     \E p2 \in ProvErrs \cup Pin2Lines(log[d], i):
     \E v \in Drawn(p2 >= 0,
                     ProvErrs \cup {INPUT_PORT_PINS, INPUT_PORT_PINS + 1}):
       LET c1 == <<Call("pin2.get", i, p2)>>
           c2 == c1 \o <<Call("in.get", i, v)>>
           d1 == IF p2 > 0 THEN <<Res("gpio", NULL, "pin2.get", i)>> ELSE <<>>
           d2 == d1 \o <<Res("gpio", NULL, "in.get", i)>>
           l == [lms[d] EXCEPT !.in_pins = @ + 1]
       IN
       IF p2 < 0 THEN Fail(d, p2, c1, lms[d], <<>>)
       ELSE IF v < 0 THEN Fail(d, v, c2, lms[d], d1)
       ELSE IF v # INPUT_PORT_PINS THEN Fail(d, -EINVAL, c2, l, d2)
       ELSE IF InputsDone(i) THEN Upd(d, "count_i2c", 0, ret[d], c2, l, d2)
       ELSE Upd(d, "in_pins", i + 1, ret[d], c2, l, d2)
  /\ UNCHANGED <<global_dev, drvdata, portres, rel, relseq, subdev, attempts, removes, rvars,
                 serial>>

\* faulty variant of I2cCountOk: a surplus of "in-i2cs" entries is accepted
I2cCountOk_AtLeast(n) == n >= INPUTS

\* line 164: ret != INPUTS
I2cCountOk(n) == n = INPUTS

\* lines 163-177: count "in-i2cs", then read the adapter numbers
ProbeCountI2c(d) ==
  /\ DevTurn(d)
  /\ pc[d] = "count_i2c"
  /\ \E n \in CountVals:
     \E rd \in Drawn(I2cCountOk(n), DescErrs \cup {0}):
       LET c1 == <<Call("in-i2cs.count", 0, n)>>
           c2 == c1 \o <<Call("in-i2cs.read", 0, rd)>>
       IN
       IF ~I2cCountOk(n) THEN
         Fail(d, IF n < 0 THEN n ELSE -EINVAL, c1, lms[d], <<>>)
       ELSE IF rd < 0 THEN Fail(d, rd, c2, lms[d], <<>>)
       ELSE Upd(d, "i2c", 0, ret[d], c2, lms[d], <<>>)
  /\ UNCHANGED <<global_dev, drvdata, portres, rel, relseq, subdev, attempts, removes, rvars,
                 serial>>

\* the adapter i2c_get_adapter hands out for input port i
AdapterOf(i) == i + 1

\* faulty variant of I2cUnavailRet: a missing adapter is a hard error
I2cUnavailRet_Hard == -ENODEV

\* line 184: the code returned when the adapter is not registered yet
I2cUnavailRet == -EPROBE_DEFER

\* lines 186-193: the adapter pointer held by the release record that is
\* added for adapter a: devres_alloc zeroes the record and probe never
\* assigns its adapter member
I2cRecAdapter(a) == NULL

\* lines 179-194: one iteration of the loop that gets the I2C adapters
ProbeI2cAdapter(d) ==
  /\ DevTurn(d)
  /\ pc[d] = "i2c"
  /\ LET i == idx[d] IN
     \E a \in {NULL, AdapterOf(i)}:
     \E rec \in Drawn(a # NULL, {NULL, HANDLE}):
       LET c1 == <<Call("i2c.get", i, a)>>
           c2 == c1 \o <<Call("i2c.devres_alloc", i, rec)>>
           l == [lms[d] EXCEPT !.i2c_adapter = @ + 1]
           dr == <<Res("i2c_rec", I2cRecAdapter(a), "i2c.get", i)>>
       IN
       IF a = NULL THEN
         Fail(d, I2cUnavailRet, c1, lms[d], <<>>) /\ UNCHANGED <<rel, relseq>>
       ELSE IF rec = NULL THEN
         \* line 189: i2c_put_adapter(lms->i2c_adapter[i])
         /\ Fail(d, -ENOMEM, c2, l, <<>>)
         /\ rel' = [rel EXCEPT ![d]["i2c"] = @ + 1]
         /\ relseq' = [relseq EXCEPT ![d] = Append(@, Rsrc("i2c.get", i))]
       ELSE
         /\ UNCHANGED <<rel, relseq>>
         /\ IF InputsDone(i) THEN Upd(d, "count_uart", 0, ret[d], c2, l, dr)
            ELSE Upd(d, "i2c", i + 1, ret[d], c2, l, dr)
  /\ UNCHANGED <<global_dev, drvdata, portres, subdev, attempts, removes, rvars, serial>>

\* line 201: ret != INPUTS
UartCountOk(n) == n = INPUTS

\* lines 196-204: of_count_phandle_with_args(..., "in-uarts", ...)
ProbeCountUarts(d) ==
  /\ DevTurn(d)
  /\ pc[d] = "count_uart"
  /\ \E n \in CountVals:
       LET c == <<Call("in-uarts.count", 0, n)>> IN
       IF n < 0 THEN Fail(d, n, c, lms[d], <<>>)
       ELSE IF ~UartCountOk(n) THEN Fail(d, -EINVAL, c, lms[d], <<>>)
       ELSE Upd(d, "uart", 0, ret[d], c, lms[d], <<>>)
  /\ UNCHANGED <<global_dev, drvdata, portres, rel, relseq, subdev, attempts, removes, rvars,
                 serial>>

\* the value of a freed slab object when it is read back: slab poison
POISON == 1802201963

\* line 266: PTR_ERR(clk->clk) is evaluated after devres_free(clk) on line
\* 263, a read of freed memory: the error stored there, or whatever the
\* allocator left in its place
FreedClkErr(v) == {v, POISON}

\* lines 205-284: one iteration of the loop that sets up the port UARTs
ProbeUart(d) ==
  /\ DevTurn(d)
  /\ pc[d] = "uart"
  /\ LET i == idx[d]
         put == [rel EXCEPT ![d]["node"] = @ + 1]
     IN
     \E ph \in DescErrs \cup {0}:
     \E rs \in Drawn(ph >= 0, DescErrs \cup {0}):
     \E mem \in Drawn(rs >= 0, ProvErrs \cup {HANDLE}):
     \E irq \in Drawn(mem >= 0, DescErrs \cup {HANDLE}):
     \E fq \in Drawn(irq >= 0, DescErrs \cup {0}):
     \E rec \in Drawn(fq >= 0, {NULL, HANDLE}):
     \E clk \in Drawn(fq >= 0 /\ rec # NULL, ProvErrs \cup {HANDLE}):
     \E en \in Drawn(clk >= 0, ProvErrs \cup {0}):
       LET c1 == <<Call("in-uarts.phandle", i, ph)>>
           c2 == c1 \o <<Call("uart.resource", i, rs)>>
           c3 == c2 \o <<Call("uart.ioremap", i, mem)>>
           c4 == c3 \o <<Call("uart.irq", i, irq)>>
           c5 == c4 \o <<Call("uart.freq", i, fq)>>
           c6 == c5 \o <<Call("clk.devres_alloc", i, rec)>>
           c7 == c6 \o <<Call("clk.get", i, clk)>>
           c8 == c7 \o <<Call("clk.enable", i, en)>>
           dm == <<Res("uartmem", NULL, "uart.ioremap", i)>>
           l == [lms[d] EXCEPT !.uart = @ + 1]
       IN
       IF ph < 0 THEN Fail(d, ph, c1, lms[d], <<>>) /\ UNCHANGED <<rel, relseq>>
       ELSE IF rs < 0 THEN Fail(d, rs, c2, lms[d], <<>>) /\ rel' = put /\ UNCHANGED relseq
       ELSE IF mem < 0 THEN Fail(d, mem, c3, lms[d], <<>>) /\ rel' = put /\ UNCHANGED relseq
       ELSE IF irq < 0 THEN Fail(d, irq, c4, lms[d], dm) /\ rel' = put /\ UNCHANGED relseq
       ELSE IF fq < 0 THEN Fail(d, fq, c5, lms[d], dm) /\ rel' = put /\ UNCHANGED relseq
       ELSE IF rec = NULL THEN
         \* lines 255-259: devres_alloc is not checked; clk->clk = ... writes
         \* through the NULL pointer and the probing task dies in the kernel
         /\ Upd(d, "oops", i, ret[d], c6, lms[d], dm)
         /\ UNCHANGED <<rel, relseq>>
       ELSE IF clk < 0 THEN
         /\ \E rv \in FreedClkErr(clk): Fail(d, rv, c7, lms[d], dm)
         /\ rel' = put /\ UNCHANGED relseq
       ELSE IF en < 0 THEN
         \* line 274: clk_put(clk->clk)
         /\ Fail(d, en, c8, lms[d], dm)
         /\ rel' = [put EXCEPT ![d]["clk"] = @ + 1]
         /\ relseq' = [relseq EXCEPT ![d] = Append(@, Rsrc("clk.get", i))]
       ELSE
         /\ rel' = put /\ UNCHANGED relseq
         /\ LET dr == dm \o <<Res("clk_rec", clk, "clk.get", i)>> IN
            IF InputsDone(i) THEN Upd(d, "out_pins", 0, ret[d], c8, l, dr)
            ELSE Upd(d, "uart", i + 1, ret[d], c8, l, dr)
  /\ UNCHANGED <<global_dev, drvdata, portres, subdev, attempts, removes,
                 rvars, serial>>

\* faulty variant of OutputsDone: the output loops stop one port early
OutputsDone_Early(i) == i + 2 >= OUTPUTS

\* lines 286, 301: the loop condition i < OUTPUTS, for i + 1
OutputsDone(i) == i + 1 >= OUTPUTS

\* lines 286-299: one output port's GPIO group and its arity check
ProbeOutPins(d) ==
  /\ DevTurn(d)
  /\ pc[d] = "out_pins"
  /\ LET i == idx[d] IN
     \E v \in ProvErrs \cup {OUTPUT_PORT_PINS, OUTPUT_PORT_PINS + 1}:
       LET c == <<Call("out.get", i, v)>>
           l == [lms[d] EXCEPT !.out_pins = @ + 1]
           dr == <<Res("gpio", NULL, "out.get", i)>>
       IN
       IF v < 0 THEN Fail(d, v, c, lms[d], <<>>)
       ELSE IF v # OUTPUT_PORT_PINS THEN Fail(d, -EINVAL, c, l, dr)
       ELSE IF OutputsDone(i) THEN Upd(d, "out_pwm", 0, ret[d], c, l, dr)
       ELSE Upd(d, "out_pins", i + 1, ret[d], c, l, dr)
  /\ UNCHANGED <<global_dev, drvdata, portres, rel, relseq, subdev, attempts, removes,
                 rvars, serial>>

\* line 308: return PTR_ERR(lms->out_pwms[i])
PwmRet(v) == v

\* lines 301-310: one output port's PWM channel
ProbeOutPwm(d) ==
  /\ DevTurn(d)
  /\ pc[d] = "out_pwm"
  /\ LET i == idx[d] IN
     \E v \in PwmErrs \cup {HANDLE}:
       LET c == <<Call("pwm.get", i, v)>>
           l == [lms[d] EXCEPT !.out_pwms = @ + 1]
           dr == <<Res("pwm", NULL, "pwm.get", i)>>
       IN
       IF v < 0 THEN Fail(d, PwmRet(v), c, lms[d], <<>>)
       ELSE IF OutputsDone(i) THEN Upd(d, "publish", 0, ret[d], c, l, dr)
       ELSE Upd(d, "out_pwm", i + 1, ret[d], c, l, dr)
  /\ UNCHANGED <<global_dev, drvdata, portres, rel, relseq, subdev, attempts, removes,
                 rvars, serial>>

\* lines 312-313: platform_set_drvdata(pdev, lms); global_dev = &pdev->dev
ProbePublish(d) ==
  /\ DevTurn(d)
  /\ pc[d] = "publish"
  /\ drvdata' = [drvdata EXCEPT ![d] = TRUE]
  /\ global_dev' = d
  /\ Upd(d, "reg", 0, ret[d], <<>>, lms[d], <<>>)
  /\ UNCHANGED <<portres, rel, relseq, subdev, attempts, removes, rvars, serial>>

\* platform_device_register_simple(name, -1, NULL, 0) when the allocator
\* answers mem: a second platform device of the same name and id cannot be
\* added; otherwise the registration succeeds unless the allocation fails
RegisterResult(owner, mem) ==
  IF mem < 0 THEN mem ELSE IF owner # NULL THEN -EEXIST ELSE HANDLE

\* the allocator's answers to the four registrations of one probe
RegisterMem ==
  {m \in [1..NumSubDevs -> {HANDLE, -ENOMEM}]:
     Cardinality({n \in 1..NumSubDevs: m[n] < 0}) <= MaxRegFail}

\* the same, for the attempt lg
RegisterMemOf(lg) ==
  IF Plain(lg) THEN RegisterMem ELSE {[n \in 1..NumSubDevs |-> HANDLE]}

\* the token stored in lms for a registration that returned v: the result is
\* stored unchecked
Token(v) == IF v < 0 THEN "err" ELSE "dev"

\* lines 315-322: register d_analog, d_iic, d_uart, d_pwm, in that order,
\* and return 0
ProbeRegister(d) ==
  /\ DevTurn(d)
  /\ pc[d] = "reg"
  /\ \E mem \in RegisterMemOf(log[d]):
       LET v == [n \in 1..NumSubDevs |-> RegisterResult(subdev[n], mem[n])]
           c == [n \in 1..NumSubDevs |-> Call("register", n, v[n])]
           l == [lms[d] EXCEPT
                   !.sub = [n \in 1..NumSubDevs |-> Token(v[n])]]
       IN
       /\ subdev' = [n \in 1..NumSubDevs |->
                       IF v[n] < 0 THEN subdev[n] ELSE d]
       /\ Upd(d, "bound", 0, 0, c, l, <<>>)
  /\ UNCHANGED <<global_dev, drvdata, portres, rel, relseq, attempts, removes, rvars,
                 serial>>

(* ------------------------------------------------------------------ *)
(* lms2012_compat_remove                                               *)
(* ------------------------------------------------------------------ *)

\* faulty variant of UnregisterOrder: the order of registration
UnregisterOrder_Forward == [k \in 1..NumSubDevs |-> k]

\* the order in which remove unregisters the sub-devices (lines 329-332):
\* d_pwm, d_uart, d_iic, d_analog
UnregisterOrder == [k \in 1..NumSubDevs |-> NumSubDevs + 1 - k]

\* lines 327-332: unregister the four sub-devices;
\* platform_device_unregister ignores an ERR_PTR or NULL token
RemoveUnregister(d) ==
  /\ DevTurn(d)
  /\ pc[d] = "bound"
  /\ subdev' = [n \in 1..NumSubDevs |->
                  IF lms[d].sub[n] = "dev" THEN NULL ELSE subdev[n]]
  /\ Upd(d, "clear", 0, ret[d],
         [k \in 1..NumSubDevs |-> Call("unregister", UnregisterOrder[k], 0)],
         lms[d], <<>>)
  /\ UNCHANGED <<global_dev, drvdata, portres, rel, relseq, attempts, removes, rvars,
                 serial>>

\* faulty variant of RemoveGlobal: remove leaves global_dev as it is
RemoveGlobal_Keep(g) == g

\* line 333: the value assigned to global_dev by remove
RemoveGlobal(g) == NULL

\* lines 333-337: global_dev = NULL; return 0
RemoveClear(d) ==
  /\ DevTurn(d)
  /\ pc[d] = "clear"
  /\ global_dev' = RemoveGlobal(global_dev)
  /\ removes' = removes + 1
  /\ Upd(d, "removed", 0, ret[d], <<>>, lms[d], <<>>)
  /\ UNCHANGED <<drvdata, portres, rel, relseq, subdev, attempts, rvars, serial>>

(* ------------------------------------------------------------------ *)
(* The driver core after a failed probe or after remove:               *)
(* devres_release_all(&pdev->dev)                                      *)
(* ------------------------------------------------------------------ *)

\* the provider releases made when the managed resource e is released
\*   lines 46-51: i2c_put_adapter(adapter->adapter), a no-op on NULL
\*   lines 57-63: clk_disable_unprepare(clk->clk); clk_put(clk->clk)
Releases(e) ==
  CASE e.kind = "i2c_rec" -> IF e.arg # NULL THEN <<"i2c">> ELSE <<>>
    [] e.kind = "clk_rec" -> <<"clk_en", "clk">>
    [] e.kind \in {"gpio", "uartmem", "pwm"} -> <<e.kind>>
    [] OTHER -> <<>>

\* faulty variant of Released: the clock is put without being disabled
Released_PutOnly(e) ==
  CASE e.kind = "i2c_rec" ->
         IF e.arg # NULL THEN <<Rsrc("i2c.get", e.i)>> ELSE <<>>
    [] e.kind = "clk_rec" -> <<Rsrc("clk.get", e.i)>>
    [] e.kind \in {"gpio", "uartmem", "pwm"} -> <<Rsrc(e.call, e.i)>>
    [] OTHER -> <<>>

\* faulty variant of Released: the clock is put before it is disabled
Released_PutFirst(e) ==
  CASE e.kind = "i2c_rec" ->
         IF e.arg # NULL THEN <<Rsrc("i2c.get", e.i)>> ELSE <<>>
    [] e.kind = "clk_rec" -> <<Rsrc("clk.get", e.i), Rsrc("clk.enable", e.i)>>
    [] e.kind \in {"gpio", "uartmem", "pwm"} -> <<Rsrc(e.call, e.i)>>
    [] OTHER -> <<>>

\* the resources given back when the managed resource e is released, in the
\* order of the calls that give them back (lines 46-51, 57-63)
Released(e) ==
  CASE e.kind = "i2c_rec" ->
         IF e.arg # NULL THEN <<Rsrc("i2c.get", e.i)>> ELSE <<>>
    [] e.kind = "clk_rec" -> <<Rsrc("clk.enable", e.i), Rsrc("clk.get", e.i)>>
    [] e.kind \in {"gpio", "uartmem", "pwm"} -> <<Rsrc(e.call, e.i)>>
    [] OTHER -> <<>>

\* the resources given back for a whole devres list, newest entry first
RECURSIVE ReleasedAll(_)
ReleasedAll(dr) ==
  IF dr = <<>> THEN <<>>
  ELSE Released(dr[Len(dr)]) \o ReleasedAll(SubSeq(dr, 1, Len(dr) - 1))

\* the provider releases of a whole devres list, newest resource first
RECURSIVE ReleaseAll(_)
ReleaseAll(dr) ==
  IF dr = <<>> THEN <<>>
  ELSE Releases(dr[Len(dr)]) \o ReleaseAll(SubSeq(dr, 1, Len(dr) - 1))

\* number of releases of kind k in the release sequence rs
RelCount(rs, k) == LET T(x) == x = k IN Len(SelectSeq(rs, T))

\* every managed resource of pdev->dev is released, the bundle is freed and
\* the driver data is cleared
DevresReleaseAll(d) ==
  /\ DevTurn(d)
  /\ pc[d] \in {"failed", "removed"}
  /\ LET rs == ReleaseAll(devres[d]) IN
     rel' = [rel EXCEPT ![d] = [k \in RelKinds |-> @[k] + RelCount(rs, k)]]
  /\ relseq' = [relseq EXCEPT ![d] = @ \o ReleasedAll(devres[d])]
  /\ devres' = [devres EXCEPT ![d] = <<>>]
  /\ lms' = [lms EXCEPT ![d] = EmptyLms]
  /\ drvdata' = [drvdata EXCEPT ![d] = FALSE]
  /\ pc' = [pc EXCEPT ![d] = "released"]
  /\ UNCHANGED <<global_dev, idx, ret, portres, log, subdev, attempts, removes,
                 rvars, serial>>

\* the device is unbound again; the record of the finished attempt is dropped
DriverCoreDone(d) ==
  /\ DevTurn(d)
  /\ pc[d] = "released"
  /\ pc' = [pc EXCEPT ![d] = "unbound"]
  /\ idx' = [idx EXCEPT ![d] = 0]
  /\ ret' = [ret EXCEPT ![d] = 0]
  /\ log' = [log EXCEPT ![d] = <<>>]
  /\ rel' = [rel EXCEPT ![d] = NoRel]
  /\ relseq' = [relseq EXCEPT ![d] = <<>>]
  /\ UNCHANGED <<global_dev, lms, drvdata, devres, portres, subdev, attempts,
                 removes, rvars, serial>>

(* ------------------------------------------------------------------ *)
(* lms2012_compat_get (line 38) and the caller's put_device            *)
(* ------------------------------------------------------------------ *)

\* the argument of get_device is evaluated: global_dev is loaded
GetLoad(r) ==
  /\ ReaderTurn(r)
  /\ rpc[r] = "idle"
  /\ rpc' = [rpc EXCEPT ![r] = "loaded"]
  /\ rptr' = [rptr EXCEPT ![r] = global_dev]
  /\ UNCHANGED <<global_dev, pc, idx, ret, lms, drvdata, devres, portres, log,
                 rel, relseq, subdev, attempts, removes, devref, serial>>

\* get_device(dev): NULL for NULL, else the use count of dev is incremented
GetDevice(r) ==
  /\ ReaderTurn(r)
  /\ rpc[r] = "loaded"
  /\ IF rptr[r] = NULL
       THEN rpc' = [rpc EXCEPT ![r] = "idle"] /\ UNCHANGED devref
       ELSE /\ rpc' = [rpc EXCEPT ![r] = "holding"]
            /\ devref' = [devref EXCEPT ![rptr[r]] = @ + 1]
  /\ UNCHANGED <<global_dev, pc, idx, ret, lms, drvdata, devres, portres, log,
                 rel, relseq, subdev, attempts, removes, rptr, serial>>

\* the caller is done with the device it got: put_device
PutDevice(r) ==
  /\ ReaderTurn(r)
  /\ rpc[r] = "holding"
  /\ devref' = [devref EXCEPT ![rptr[r]] = @ - 1]
  /\ rpc' = [rpc EXCEPT ![r] = "idle"]
  /\ rptr' = [rptr EXCEPT ![r] = NULL]
  /\ UNCHANGED <<global_dev, pc, idx, ret, lms, drvdata, devres, portres, log,
                 rel, relseq, subdev, attempts, removes, serial>>

(* ------------------------------------------------------------------ *)
(* Specifications                                                      *)
(* ------------------------------------------------------------------ *)

Next ==
  \/ \E d \in Devs:
       \/ ProbeCheck(d)
       \/ ProbeAllocLms(d)
       \/ ProbeCountInPorts(d)
       \/ ProbeInPort(d)
       \/ ProbeAdcMap(d)
       \/ ProbeSpiPins(d)
       \/ ProbeInPins(d)
       \/ ProbeCountI2c(d)
       \/ ProbeI2cAdapter(d)
       \/ ProbeCountUarts(d)
       \/ ProbeUart(d)
       \/ ProbeOutPins(d)
       \/ ProbeOutPwm(d)
       \/ ProbePublish(d)
       \/ ProbeRegister(d)
       \/ RemoveUnregister(d)
       \/ RemoveClear(d)
       \/ DevresReleaseAll(d)
       \/ DriverCoreDone(d)
  \/ \E r \in Readers:
       \/ GetLoad(r)
       \/ GetDevice(r)
       \/ PutDevice(r)

\* probe, remove and get invoked one at a time
Spec == Init /\ [][Next]_vars

\* probe, remove and get invoked from concurrent control paths
SpecConc == InitConc /\ [][Next]_vars

(* ------------------------------------------------------------------ *)
(* Vocabulary of the properties                                        *)
(* ------------------------------------------------------------------ *)

\* d is published: probe has stored it in global_dev and remove has not yet
\* cleared the pointer on its behalf
Active(d) == pc[d] \in {"reg", "bound", "clear"}

\* probe of d has returned; Failed: with an error
Returned(d) == pc[d] \in {"failed", "released", "bound", "clear", "removed"}
Failed(d) == pc[d] \in {"failed", "released"} /\ ret[d] # 0

\* the managed-resource release of d has run after a failed probe / a remove
UnwoundAfterFailure(d) == pc[d] = "released" /\ ret[d] # 0
UnwoundAfterRemove(d) == pc[d] = "released" /\ ret[d] = 0

\* every provider has seen as many releases as claims for d's attempt
AllReleased(d) == \A k \in Kinds: rel[d][k] = ClaimCount(log[d], k)

\* the attempt lg made call c and was answered with a value in S
Answered(lg, c, S) == \E p \in DOMAIN lg: lg[p].call = c /\ lg[p].val \in S

\* the calls that count entries of the hardware description
CountCalls == {"in-in-ports.count", "in-i2cs.count", "in-uarts.count"}

\* entry p of lg is a count that is an error or differs from INPUTS
BadCountAt(lg, p) == lg[p].call \in CountCalls /\ lg[p].val # INPUTS

\* the answer logged in e is the one a valid description, ready providers
\* and a successful allocation give
Favourable(e) ==
  CASE e.call \in CountCalls -> e.val = INPUTS
    [] e.call = "adc-channels.read" -> e.i = INPUTADC /\ e.val = 0
    [] e.call = "spi.get" -> e.val = ADC_SPI_PINS
    [] e.call = "in.get" -> e.val = INPUT_PORT_PINS
    [] e.call = "out.get" -> e.val = OUTPUT_PORT_PINS
    [] e.call \in {"lms.alloc", "in_port.find", "i2c.get", "i2c.devres_alloc",
                   "clk.devres_alloc"} -> e.val # NULL
    [] OTHER -> e.val >= 0

\* the ports (or sub-devices) named by the calls c of the attempt lg, in the
\* order in which the calls were made
CallsOf(lg, c) ==
  LET T(e) == e.call = c
      S == SelectSeq(lg, T)
  IN [k \in 1..Len(S) |-> S[k].i]

\* the calls of the acquisition steps whose order probe fixes, with the step
\* they belong to (lines 92-310) and their place within one port's iteration
StepOf(c) ==
  CASE c = "pinctrl.get" -> 1
    [] c = "adc-channels.read" -> 2
    [] c = "spi.get" -> 3
    [] c \in {"pin2.get", "in.get"} -> 4
    [] c = "i2c.get" -> 5
    [] c \in {"uart.ioremap", "uart.irq", "uart.freq", "clk.get",
              "clk.enable"} -> 6
    [] c = "out.get" -> 7
    [] c = "pwm.get" -> 8
    [] OTHER -> 0

SubStepOf(c) ==
  CASE c \in {"in.get", "uart.irq"} -> 1
    [] c = "uart.freq" -> 2
    [] c = "clk.get" -> 3
    [] c = "clk.enable" -> 4
    [] OTHER -> 0

\* the calls of lg that belong to an ordered step, in the order made
StepCalls(lg) == LET T(e) == StepOf(e.call) > 0 IN SelectSeq(lg, T)

\* a precedes b in the fixed order: earlier step, or same step and earlier
\* port, or same port and earlier in the iteration
Precedes(a, b) ==
  \/ StepOf(a.call) < StepOf(b.call)
  \/ /\ StepOf(a.call) = StepOf(b.call)
     /\ \/ a.i < b.i
        \/ a.i = b.i /\ SubStepOf(a.call) < SubStepOf(b.call)

\* the call e of an ordered step failed: it reported an error or a NULL
\* adapter, or handed out a group of the wrong arity; a missing optional
\* pin 2 line is no failure
StepFailed(e) ==
  /\ StepOf(e.call) > 0
  /\ IF e.call = "adc-channels.read" THEN e.val < 0 ELSE ~Favourable(e)

\* number of resources handed out by the calls c of the attempt lg
ClaimsOf(lg, c) ==
  LET T(e) == e.call = c /\ Claimed(e) IN Len(SelectSeq(lg, T))

\* the place in the attempt lg of the acquire call that handed out x
AcqPos(lg, x) ==
  CHOOSE p \in DOMAIN lg: lg[p].call = x.call /\ lg[p].i = x.i

\* how many times the resource x has been given back for d's attempt
TimesReleased(d, x) ==
  LET T(y) == y = x IN Len(SelectSeq(relseq[d], T))

\* the acquire call c of port i handed out a resource in d's attempt
Got(d, c, i) ==
  \E p \in DOMAIN log[d]:
    log[d][p].call = c /\ log[d][p].i = i /\ Claimed(log[d][p])

\* number of description nodes whose reference the attempt lg obtained by
\* resolving a phandle (of_parse_phandle_with_args returns args.np held)
NodesGot(lg) ==
  LET T(e) == /\ e.call \in {"in-in-ports.phandle", "in-uarts.phandle"}
              /\ e.val >= 0
  IN Len(SelectSeq(lg, T))

(* ------------------------------------------------------------------ *)
(* Properties                                                          *)
(* ------------------------------------------------------------------ *)

\* C1: whenever probe has failed and the managed-resource unwind of the
\* probed device has run, every provider has seen exactly as many releases
\* as claims for that attempt, so nothing remains claimed.
C1_FailedProbeLeavesNoClaim ==
  \A d \in Devs: UnwoundAfterFailure(d) => AllReleased(d)

\* C2: invoked one at a time, at most one instance is active, and a probe
\* invoked while another instance is active returns -EBUSY having made no
\* call at all and having left global_dev on the active instance.
C2_SingletonSequential ==
  /\ Cardinality({d \in Devs: Active(d)}) <= 1
  /\ \A d, e \in Devs:
       (d # e /\ Active(e) /\ pc[d] \notin {"unbound", "oops"})
         => /\ Failed(d)
            /\ ret[d] = -EBUSY
            /\ log[d] = <<>>
            /\ devres[d] = <<>>
            /\ global_dev = e

\* C2 witness: a probe invoked while the other device is bound has returned
\* -EBUSY and has been unwound.
C2_Witness ==
  \E d, e \in Devs:
    d # e /\ pc[e] = "bound" /\ pc[d] = "released" /\ ret[d] = -EBUSY

\* C3: however two probes of two devices are interleaved, at most one of
\* them publishes and returns success.
C3_SingletonConcurrent ==
  Cardinality({d \in Devs: pc[d] = "bound"}) <= 1

\* C4: a reference returned by lms2012_compat_get keeps the instance alive:
\* while a reader holds it, the bundle of that device is allocated and
\* complete and none of its managed resources has been released.
C4_ReferenceKeepsInstanceAlive ==
  \A r \in Readers:
    rpc[r] = "holding" =>
      /\ LmsComplete(lms[rptr[r]])
      /\ devres[rptr[r]] # <<>>

\* C5 as claimed: if any of the three counts (in-in-ports, in-uarts, in-i2cs)
\* is an error or differs from INPUTS, the attempt has made no acquire call.
C5_ValidationBeforeAnyAcquire ==
  \A d \in Devs:
    (\E p \in DOMAIN log[d]: BadCountAt(log[d], p))
      => AcquireCallCount(log[d]) = 0

\* C5 as amended: each count is checked where it is read.  A bad in-in-ports
\* count fails probe before any acquire call; a bad in-i2cs or in-uarts count
\* fails probe at once too, so no acquire call follows it (no I2C adapter,
\* resp. no UART window or clock, is acquired under a bad count), although
\* the acquire calls of the earlier steps have been made by then.
C5_CountsValidatedWhereRead ==
  \A d \in Devs: \A p \in DOMAIN log[d]:
    BadCountAt(log[d], p) =>
      /\ Failed(d)
      /\ \A q \in DOMAIN log[d]: q > p => log[d][q].call \notin AcquireCalls
      /\ log[d][p].call = "in-in-ports.count" => AcquireCallCount(log[d]) = 0
      /\ log[d][p].call = "in-i2cs.count" => ClaimCount(log[d], "i2c") = 0
      /\ log[d][p].call = "in-uarts.count" =>
           /\ ClaimCount(log[d], "uartmem") = 0
           /\ ClaimCount(log[d], "clk") = 0

\* C5 witness: probe has failed on a wrong in-i2cs count after the earlier
\* steps made their acquire calls.
C5_Witness ==
  \E d \in Devs:
    /\ Failed(d)
    /\ Answered(log[d], "in-i2cs.count", {INPUTS + 1})
    /\ AcquireCallCount(log[d]) > 0

\* C6: after a successful probe, remove, and the managed-resource release
\* of the device, every provider has seen exactly as many releases as
\* claims: nothing leaked, nothing released twice.
C6_TeardownReleasesExactlyTheClaims ==
  \A d \in Devs: UnwoundAfterRemove(d) => AllReleased(d)

\* C7: invoked one at a time, whenever no instance is active (before any
\* probe, after remove, after failed probes) global_dev is NULL, so
\* lms2012_compat_get loads and returns NULL, and a probe is rejected with
\* -EBUSY only while another instance is active.
C7_RemoveClearsActiveInstance ==
  /\ (\A d \in Devs: ~Active(d)) =>
       /\ global_dev = NULL
       /\ \A r \in Readers: rpc[r] = "loaded" => rptr[r] = NULL
  /\ \A d \in Devs:
       (Failed(d) /\ ret[d] = -EBUSY) => \E e \in Devs \ {d}: Active(e)

\* C7 witness: after a completed remove a later probe has succeeded.
C7_Witness ==
  /\ removes >= 1
  /\ \E d \in Devs: pc[d] = "bound" /\ global_dev = d

\* C8: if i2c_get_adapter found no adapter for a port, or devm_pwm_get
\* answered -EPROBE_DEFER for a port, probe returns -EPROBE_DEFER and the
\* device is not published.
C8_UnavailableIsDeferred ==
  \A d \in Devs:
    (\/ Answered(log[d], "i2c.get", {NULL})
     \/ Answered(log[d], "pwm.get", {-EPROBE_DEFER}))
      => /\ Failed(d)
         /\ ret[d] = -EPROBE_DEFER
         /\ global_dev # d
         /\ ~drvdata[d]

\* C8 witness: the adapter of the last input port was not available and
\* probe has returned.
C8_Witness ==
  \E d \in Devs:
    /\ pc[d] = "failed"
    /\ log[d] # <<>>
    /\ log[d][Len(log[d])] = Call("i2c.get", INPUTS - 1, NULL)

\* C9: a probe whose every call was answered favourably returns success, and
\* whenever probe has returned success each of the four stored tokens refers
\* to a registered sub-device.
C9_SuccessExposesFourSubDevices ==
  \A d \in Devs:
    /\ (Failed(d) /\ ret[d] # -EBUSY) =>
         \E p \in DOMAIN log[d]: ~Favourable(log[d][p])
    /\ pc[d] = "bound" =>
         \A n \in 1..NumSubDevs: lms[d].sub[n] = "dev" /\ subdev[n] = d

\* C10: invoked one at a time, global_dev points to d only if the probe of d
\* has completed every acquisition step and d has not been removed: the
\* bundle reachable through it is complete, and before any probe, during
\* an acquisition and after a failed probe global_dev is not d.
C10_OnlyCompleteBundlePublished ==
  \A d \in Devs:
    /\ global_dev = d =>
         /\ Active(d)
         /\ LmsComplete(lms[d])
         /\ drvdata[d]
         /\ ClaimCount(log[d], "pwm") = OUTPUTS
    /\ (pc[d] \in {"unbound", "failed", "released"} \/ Local(d)) =>
         global_dev # d

\* C10 witness: a device is published and a reader holds the handle that
\* lms2012_compat_get returned for it.
C10_Witness ==
  \E d \in Devs, r \in Readers:
    global_dev = d /\ pc[d] = "bound" /\ rpc[r] = "holding" /\ rptr[r] = d

\* C11: whenever probe has read an "adc-channels" array whose declared length
\* is not INPUTADC (shorter or longer), or whose lookup failed, probe has
\* failed with an error and the device is not published.
C11_AdcLengthMustMatch ==
  \A d \in Devs: \A p \in DOMAIN log[d]:
    (log[d][p].call = "adc-channels.read" /\ log[d][p].i # INPUTADC)
      => /\ Failed(d)
         /\ global_dev # d

\* C12: every error reported to probe by a provider or by a description
\* query during the acquisition steps (the lookups of the "default" and "i2c"
\* pin states included) makes probe fail with that same error code.
C12_ErrorsPropagatedUnchanged ==
  \A d \in Devs: \A p \in DOMAIN log[d]:
    (log[d][p].call \notin {"register", "unregister"} /\ log[d][p].val < 0)
      => /\ Failed(d)
         /\ ret[d] = log[d][p].val

\* C13: invoked one at a time, a registered sub-device implies that the
\* active instance is set, and it is the instance that registered it.  The
\* sub-devices are registered in the order analog, i2c, uart, pwm, after
\* probe has stored the active instance; remove unregisters them in the
\* order pwm, uart, i2c, analog, and the active pointer is still set when
\* the last one has been unregistered.
C13_RegisteredImpliesActive ==
  /\ (\E n \in 1..NumSubDevs: subdev[n] # NULL) => global_dev # NULL
  /\ \A d \in Devs:
       /\ (\E n \in 1..NumSubDevs: subdev[n] = d) => global_dev = d
       /\ pc[d] = "reg" =>
            /\ global_dev = d
            /\ CallsOf(log[d], "register") = <<>>
            /\ \A n \in 1..NumSubDevs: subdev[n] # d
       /\ CallsOf(log[d], "register") \in
            {<<>>, [k \in 1..NumSubDevs |-> k]}
       /\ CallsOf(log[d], "unregister") \in
            {<<>>, [k \in 1..NumSubDevs |-> NumSubDevs + 1 - k]}
       /\ pc[d] = "clear" =>
            /\ global_dev = d
            /\ Len(CallsOf(log[d], "unregister")) = NumSubDevs
            /\ \A n \in 1..NumSubDevs: subdev[n] # d

\* C13 witness: remove has unregistered the four sub-devices of a bound
\* device and has not cleared the active pointer yet.
C13_Witness ==
  \E d \in Devs:
    /\ pc[d] = "clear"
    /\ global_dev = d
    /\ Len(CallsOf(log[d], "unregister")) = NumSubDevs
    /\ \A n \in 1..NumSubDevs: lms[d].sub[n] = "dev"

\* C14: within one attempt the calls of the acquisition steps are made in
\* the fixed order (pin control per port, ADC map, SPI group, per port pin 2
\* then port group, I2C adapters, per port UART window, irq, clock
\* frequency, clock get, clock enable, per output port group, per output
\* PWM); a failed call of these steps is the last of them; and an attempt
\* that completed every step claimed INPUTS + OUTPUTS port groups, one SPI
\* group, INPUTS adapters, INPUTS UART clocks and OUTPUTS PWM channels.
C14_AcquireOrderAndCounts ==
  \A d \in Devs:
    LET sc == StepCalls(log[d]) IN
    /\ \A p \in 1..(Len(sc) - 1): Precedes(sc[p], sc[p + 1])
    /\ \A p \in 1..(Len(sc) - 1): ~StepFailed(sc[p])
    /\ (pc[d] = "publish" \/ Active(d)) =>
         /\ ClaimsOf(log[d], "in.get") = INPUTS
         /\ ClaimsOf(log[d], "out.get") = OUTPUTS
         /\ ClaimsOf(log[d], "spi.get") = 1
         /\ ClaimsOf(log[d], "pinctrl.get") = INPUTS
         /\ ClaimsOf(log[d], "i2c.get") = INPUTS
         /\ ClaimsOf(log[d], "clk.get") = INPUTS
         /\ ClaimsOf(log[d], "clk.enable") = INPUTS
         /\ ClaimsOf(log[d], "pwm.get") = OUTPUTS
         /\ ClaimsOf(log[d], "pin2.get") \in {0, INPUTS}

\* C14 witness: a probe has completed every step for a description that
\* declares the optional pin 2 lines, and is bound.
C14_Witness ==
  \E d \in Devs:
    /\ pc[d] = "bound"
    /\ ClaimsOf(log[d], "pin2.get") = INPUTS
    /\ ClaimsOf(log[d], "pwm.get") = OUTPUTS

\* C15: the resources of an attempt that are given back (at once on a
\* failure path, by the managed-resource release after a failed probe or
\* after remove) are given back in the reverse of the order in which they
\* were acquired: of two released resources, the one released first was
\* acquired last (stated for every release and the next one, which gives it
\* for every pair).
C15_ReleasedInReverseOrder ==
  \A d \in Devs: \A p \in 1..(Len(relseq[d]) - 1):
    AcqPos(log[d], relseq[d][p]) > AcqPos(log[d], relseq[d][p + 1])

\* C15 witness: the managed resources of a device have been released after
\* remove, every GPIO group, UART window, clock and PWM channel among them.
C15_Witness ==
  \E d \in Devs:
    /\ UnwoundAfterRemove(d)
    /\ Len(relseq[d]) >= 1 + INPUTS + 3 * INPUTS + 2 * OUTPUTS

\* C16: the release record added for input port i holds the adapter that
\* i2c_get_adapter returned for port i, and once the managed resources of
\* the device have been released (after a failed probe or after remove) the
\* adapter of every port that got one has been put exactly once.
C16_AdapterPutOnce ==
  \A d \in Devs:
    /\ \A p \in DOMAIN devres[d]:
         devres[d][p].kind = "i2c_rec" =>
           devres[d][p].arg = AdapterOf(devres[d][p].i)
    /\ pc[d] = "released" =>
         \A i \in 0..(INPUTS - 1):
           TimesReleased(d, Rsrc("i2c.get", i)) =
             IF Got(d, "i2c.get", i) THEN 1 ELSE 0

\* C17: while an instance is active the UART clock of every input port has
\* been acquired and prepared+enabled.  A clock is never disabled or put
\* more than once, is disabled only if it was enabled and put only if it
\* was acquired; and once the managed resources of the device have been
\* released, every enabled clock has been disabled once and every acquired
\* clock (enabled or not) has been put once.
C17_ClockPairing ==
  \A d \in Devs: \A i \in 0..(INPUTS - 1):
    LET dis == TimesReleased(d, Rsrc("clk.enable", i))
        put == TimesReleased(d, Rsrc("clk.get", i))
    IN
    /\ Active(d) => Got(d, "clk.get", i) /\ Got(d, "clk.enable", i)
    /\ dis <= (IF Got(d, "clk.enable", i) THEN 1 ELSE 0)
    /\ put <= (IF Got(d, "clk.get", i) THEN 1 ELSE 0)
    /\ (Got(d, "clk.get", i) /\ ~Got(d, "clk.enable", i)
          /\ pc[d] \in {"failed", "released"}) => put = 1 /\ dis = 0
    /\ pc[d] = "released" =>
         /\ dis = (IF Got(d, "clk.enable", i) THEN 1 ELSE 0)
         /\ put = (IF Got(d, "clk.get", i) THEN 1 ELSE 0)

\* C17 witness: the clock of port 0 was enabled, the clock of port 1 was
\* acquired but could not be enabled, and the failed probe has been unwound.
C17_Witness ==
  \E d \in Devs:
    /\ pc[d] = "released"
    /\ Got(d, "clk.enable", 0)
    /\ Got(d, "clk.get", 1)
    /\ ~Got(d, "clk.enable", 1)
    /\ TimesReleased(d, Rsrc("clk.enable", 0)) = 1

\* C18: whenever a bookkeeping allocation of probe (the instance structure,
\* an I2C release record, a UART clock release record) has returned NULL,
\* probe has returned -ENOMEM and the device is not published.
C18_AllocFailureIsENOMEM ==
  \A d \in Devs: \A p \in DOMAIN log[d]:
    (/\ log[d][p].call \in {"lms.alloc", "i2c.devres_alloc",
                            "clk.devres_alloc"}
     /\ log[d][p].val = NULL)
      => /\ Failed(d)
         /\ ret[d] = -ENOMEM
         /\ global_dev # d

\* C19: the pin-control handle of an input port belongs to the attempt that
\* claimed it: no port ever has more than one outstanding handle, and once
\* the managed resources of the device have been released (after a failed
\* probe or after remove) no port has any.
C19_PinctrlOwnedByAttempt ==
  \A d \in Devs: \A i \in 0..(INPUTS - 1):
    /\ portres[d][i] <= 1
    /\ pc[d] = "released" => portres[d][i] = 0

\* C20: whenever probe has returned, with success or with an error, every
\* description node whose reference it obtained by resolving a phandle
\* (in-in-ports, in-uarts) has been put once.
C20_NodeReferencesBalanced ==
  \A d \in Devs: Returned(d) => rel[d]["node"] = NodesGot(log[d])

====
